---------------------------- MODULE Spec2Model ----------------------------
(***************************************************************************)
(* KomariStatusPlugin.komari_realtime (src/main.py, lines 149-385): one    *)
(* invocation of the realtime status command, from the configuration check *)
(* to the last message it yields.                                          *)
(*                                                                         *)
(* JSON values are tagged records:                                         *)
(*   None        [t |-> "null"]                                            *)
(*   int         [t |-> "num", n |-> 3]                                    *)
(*   str         [t |-> "str", s |-> "Box1"]     a text that is no JSON    *)
(*               [t |-> "str", json |-> v]       the text json.dumps(v)    *)
(*   list        [t |-> "list", e |-> <<v1, v2>>]                          *)
(*   dict        [t |-> "dict", kv |-> << <<k1, v1>>, <<k2, v2>> >>]       *)
(* A dict keeps its insertion order, as Python's does.  Every literal text *)
(* of the model ("", "a", "Box1", "Unknown", "oops", ...) is no JSON       *)
(* document, and every str the code iterates is at most one character long.*)
(***************************************************************************)
EXTENDS Integers, Sequences, FiniteSets, TLC

VARIABLES
    scope,            \* which family of inputs this invocation is fed
    komari_url,       \* self.config.komari_url is set
    pc,               \* position in komari_realtime
    data,             \* result of _fetch_api("/api/nodes"), while it is used
    static_nodes,     \* identity-keyed inventory
    ws,               \* the streaming session: "none", "open", "closed"
    connects,         \* calls of session.ws_connect
    sent,             \* text frames sent on the session
    reads,            \* calls of ws.receive
    msg,              \* the frame received last
    raw_data,         \* the data field of the last success answer (line 199)
    realtime_data,    \* payload, then the sequence of raw records
    idx,              \* position of the for loop over realtime_data
    node,             \* the element the for loop is processing
    processed_nodes,  \* records that went through the whole loop body
    out               \* results yielded to the caller, in order

vars == <<scope, komari_url, pc, data, static_nodes, ws,
          connects, sent, reads, msg, raw_data, realtime_data, idx, node,
          processed_nodes, out>>

---------------------------------------------------------------------------
(* Bounds of the model. *)

\* longest node list the inventory endpoint returns
MaxNodes == 2
\* longest `online` identifier list of a payload
MaxOnline == 2
\* longest raw record sequence of a payload
MaxLen == 3

\* range(3) of the receive loop
MaxAttempts == 3

---------------------------------------------------------------------------
(* Python values. *)

Null == [t |-> "null"]
Str(s) == [t |-> "str", s |-> s]
Json(v) == [t |-> "str", json |-> v]
Num(n) == [t |-> "num", n |-> n]
List(e) == [t |-> "list", e |-> e]
Dict(kv) == [t |-> "dict", kv |-> kv]

IsDict(v) == v.t = "dict"
IsList(v) == v.t = "list"
IsStr(v) == v.t = "str"
IsNum(v) == v.t = "num"

\* bool(v)
Truthy(v) ==
    CASE v.t = "null" -> FALSE
      [] v.t = "num"  -> v.n # 0
      [] v.t = "str"  -> v # Str("")
      [] v.t = "list" -> v.e # << >>
      [] v.t = "dict" -> v.kv # << >>

\* hash(v) succeeds
Hashable(v) == v.t \notin {"list", "dict"}

\* k in d
Has(d, k) == \E j \in 1..Len(d.kv) : d.kv[j][1] = k

\* d[k], for a key of d
Item(d, k) == d.kv[CHOOSE j \in 1..Len(d.kv) : d.kv[j][1] = k][2]

\* d.get(k, default)
GetOr(d, k, default) == IF Has(d, k) THEN Item(d, k) ELSE default

\* d.get(k)
Get(d, k) == GetOr(d, k, Null)

\* d[k] = v
Put(d, k, v) ==
    IF Has(d, k)
    THEN Dict([j \in 1..Len(d.kv) |->
                 IF d.kv[j][1] = k THEN <<k, v>> ELSE d.kv[j]])
    ELSE Dict(Append(d.kv, <<k, v>>))

\* list(d.keys()), list(d.values())
Keys(d) == [j \in 1..Len(d.kv) |-> d.kv[j][1]]
Values(d) == [j \in 1..Len(d.kv) |-> d.kv[j][2]]

\* json.loads(s) of a str s: the document, or a decode error
json_loads(s) ==
    IF "json" \in DOMAIN s THEN [ok |-> TRUE, v |-> s.json]
                           ELSE [ok |-> FALSE, v |-> Null]

\* iter(v): the elements a for loop visits, or a TypeError
Iter(v) ==
    CASE v.t = "list" -> [ok |-> TRUE, e |-> v.e]
      [] v.t = "dict" -> [ok |-> TRUE, e |-> [j \in 1..Len(v.kv) |-> Str(v.kv[j][1])]]
      [] v.t = "str"  -> [ok |-> TRUE, e |-> IF v = Str("") THEN << >> ELSE <<v>>]
      [] OTHER        -> [ok |-> FALSE, e |-> << >>]

---------------------------------------------------------------------------
(* 1. Static inventory (lines 156-167). *)

\* variant of IndexNode that leaves out the uuid entry of lines 164-165
IndexNodeIdOnly(m, n) ==
    IF ~IsDict(n) THEN [ok |-> FALSE, m |-> m]
    ELSE LET id == Get(n, "id")
         IN  IF Truthy(id) /\ ~Hashable(id) THEN [ok |-> FALSE, m |-> m]
             ELSE IF Truthy(id) THEN [ok |-> TRUE, m |-> Put(m, id, n)]
             ELSE [ok |-> TRUE, m |-> m]

\* one pass of the loop body at lines 162-165; ok is FALSE when it raises
IndexNode(m, n) ==
    IF ~IsDict(n) THEN [ok |-> FALSE, m |-> m]
    ELSE LET id == Get(n, "id")
             uuid == Get(n, "uuid")
             m1 == IF Truthy(id) /\ Hashable(id) THEN Put(m, id, n) ELSE m
         IN  IF Truthy(id) /\ ~Hashable(id) THEN [ok |-> FALSE, m |-> m]
             ELSE IF ~Truthy(uuid) THEN [ok |-> TRUE, m |-> m1]
             ELSE IF ~Hashable(uuid) THEN [ok |-> FALSE, m |-> m1]
             ELSE [ok |-> TRUE, m |-> Put(m1, uuid, n)]

RECURSIVE IndexNodes(_, _)
\* the for loop at line 161 over the sequence ns, from the mapping m; the
\* except clause at line 166 ends it at the first element that raises
IndexNodes(m, ns) ==
    IF ns = << >> THEN m
    ELSE LET r == IndexNode(m, Head(ns))
         IN  IF r.ok THEN IndexNodes(r.m, Tail(ns)) ELSE r.m

\* static_nodes after lines 157-167, for the value d that _fetch_api gave
BuildStaticNodes(d) ==
    IF ~Truthy(d) \/ ~IsDict(d) THEN Dict(<< >>)
    ELSE IF ~Truthy(Get(d, "data")) \/ ~Iter(Get(d, "data")).ok THEN Dict(<< >>)
    ELSE IndexNodes(Dict(<< >>), Iter(Get(d, "data")).e)

---------------------------------------------------------------------------
(* 2. The receive loop (lines 186-217). *)

\* uuid in details_map (line 206); ok is FALSE when the test raises
Contains(details_map, uuid) ==
    CASE details_map.t = "dict" ->
            [ok |-> Hashable(uuid),
             b  |-> "s" \in DOMAIN uuid /\ Has(details_map, uuid.s)]
      [] details_map.t = "list" ->
            [ok |-> TRUE,
             b  |-> \E j \in 1..Len(details_map.e) : details_map.e[j] = uuid]
      [] details_map.t = "str" ->
            [ok |-> IsStr(uuid),
             b  |-> uuid = Str("") \/ uuid = details_map]
      [] OTHER -> [ok |-> FALSE, b |-> FALSE]

\* variant of OnlineStep that leaves out the assignment of line 208
OnlineStepWithoutUuid(details_map, uuid) ==
    LET c == Contains(details_map, uuid)
    IN  IF ~c.ok THEN [ok |-> FALSE, add |-> << >>]
        ELSE IF ~c.b THEN [ok |-> TRUE, add |-> << >>]
        ELSE IF ~IsDict(details_map) THEN [ok |-> FALSE, add |-> << >>]
        ELSE IF ~IsDict(Item(details_map, uuid.s)) THEN [ok |-> FALSE, add |-> << >>]
        ELSE [ok |-> TRUE, add |-> <<Item(details_map, uuid.s)>>]

\* lines 206-209 for one identifier (a str or None): the record to append,
\* nothing, or an exception (details_map[uuid] of a list or str, item
\* assignment on a value that is no dict)
OnlineStep(details_map, uuid) ==
    LET c == Contains(details_map, uuid)
    IN  IF ~c.ok THEN [ok |-> FALSE, add |-> << >>]
        ELSE IF ~c.b THEN [ok |-> TRUE, add |-> << >>]
        ELSE IF ~IsDict(details_map) THEN [ok |-> FALSE, add |-> << >>]
        ELSE IF ~IsDict(Item(details_map, uuid.s)) THEN [ok |-> FALSE, add |-> << >>]
        ELSE [ok |-> TRUE,
              add |-> <<Put(Item(details_map, uuid.s), "uuid", uuid)>>]

RECURSIVE OnlineLoop(_, _, _)
\* the for loop at line 205 over the identifiers ids, realtime_list so far
OnlineLoop(details_map, ids, realtime_list) ==
    IF ids = << >> THEN [ok |-> TRUE, list |-> realtime_list]
    ELSE LET r == OnlineStep(details_map, Head(ids))
         IN  IF r.ok
             THEN OnlineLoop(details_map, Tail(ids), realtime_list \o r.add)
             ELSE [ok |-> FALSE, list |-> realtime_list]

\* the test at line 200
IsOnlineShape(payload) ==
    IsDict(payload) /\ Has(payload, "online") /\ Has(payload, "data")

\* lines 201-210: realtime_list for a payload that passed the test at line 200
OnlineList(payload) ==
    LET online_uuids == Get(payload, "online")
        details_map == Get(payload, "data")
    IN  IF ~Iter(online_uuids).ok THEN [ok |-> FALSE, list |-> << >>]
        ELSE OnlineLoop(details_map, Iter(online_uuids).e, << >>)

\* the test at line 191 on the decoded frame
IsSuccess(resp) == IsDict(resp) /\ Get(resp, "status") = Str("success")

\* lines 189-215 for the text of a TEXT frame: brk is TRUE when the loop
\* breaks (line 213), rd is realtime_data afterwards.  Whatever is raised
\* between lines 190 and 213 is swallowed at line 214 and the loop goes on.
HandleText(text, rd) ==
    LET r == json_loads(text)
        payload == GetOr(r.v, "data", Dict(<< >>))
    IN  IF ~r.ok \/ ~IsSuccess(r.v) THEN [brk |-> FALSE, rd |-> rd]
        ELSE IF IsOnlineShape(payload)
             THEN IF OnlineList(payload).ok
                  THEN [brk |-> TRUE, rd |-> List(OnlineList(payload).list)]
                  ELSE [brk |-> FALSE, rd |-> rd]
             ELSE [brk |-> TRUE, rd |-> payload]

\* variant of HandleFrame without the break of lines 216-217
HandleFrameIgnoringClose(m, rd) ==
    CASE m.type = "TEXT" -> HandleText(m.data, rd)
      [] OTHER -> [brk |-> FALSE, rd |-> rd]

\* lines 188-217 for one received frame
HandleFrame(m, rd) ==
    CASE m.type = "TEXT" -> HandleText(m.data, rd)
      [] m.type \in {"CLOSED", "ERROR"} -> [brk |-> TRUE, rd |-> rd]
      [] OTHER -> [brk |-> FALSE, rd |-> rd]

---------------------------------------------------------------------------
(* 3. Record processing (lines 245-372). *)

\* the fixed key order of line 250
ListKeys == <<"servers", "nodes", "clients", "list", "data">>

\* lines 250-254: the keys of ListKeys, in order, whose value is a list
FoundKeys(rd) ==
    SelectSeq(ListKeys, LAMBDA k : Has(rd, k) /\ IsList(Item(rd, k)))

\* line 258
PotentialNodes(rd) == SelectSeq(Values(rd), IsDict)

\* lines 245-265 for a dict, and the iteration line 267 starts: what the for
\* loop visits (kind "seq"), the format message (kind "format") or the
\* TypeError of iterating a value that is not iterable (kind "raise")
Normalize(rd) ==
    IF IsDict(rd)
    THEN IF FoundKeys(rd) # << >>
         THEN [kind |-> "seq", e |-> Item(rd, Head(FoundKeys(rd))).e]
         ELSE IF PotentialNodes(rd) # << >>
              THEN [kind |-> "seq", e |-> PotentialNodes(rd)]
              ELSE [kind |-> "format", e |-> Keys(rd)]
    ELSE IF Iter(rd).ok THEN [kind |-> "seq", e |-> Iter(rd).e]
                        ELSE [kind |-> "raise", e |-> << >>]

\* lines 269-279: the dict the element stands for, or a drop (continue)
Validate(elem) ==
    LET n == IF IsStr(elem) THEN json_loads(elem) ELSE [ok |-> TRUE, v |-> elem]
    IN  [keep |-> n.ok /\ IsDict(n.v), node |-> n.v]

\* line 286: uuid or node_id
LookupKey(n) == IF Truthy(Get(n, "uuid")) THEN Get(n, "uuid") ELSE Get(n, "id")

\* the test at line 289, for a hashable key
Matches(n, sn) == Truthy(LookupKey(n)) /\ Has(sn, LookupKey(n))

RECURSIVE BackfillOverwriting(_, _)
\* variant of Backfill without the test of line 292
BackfillOverwriting(n, kv) ==
    IF kv = << >> THEN n
    ELSE BackfillOverwriting(Put(n, Head(kv)[1], Head(kv)[2]), Tail(kv))

RECURSIVE Backfill(_, _)
\* lines 291-293 over the items kv of static_info
Backfill(n, kv) ==
    IF kv = << >> THEN n
    ELSE LET k == Head(kv)[1]
             v == Head(kv)[2]
         IN  Backfill(IF ~Has(n, k) \/ Item(n, k) = Null THEN Put(n, k, v) ELSE n,
                      Tail(kv))

\* lines 296-297 and the right-hand side of line 299
ResolveName(name, matched, static_info) ==
    LET nm == IF matched /\ (~Truthy(name) \/ name = Str("Unknown"))
              THEN GetOr(static_info, "name", name) ELSE name
    IN  IF Truthy(nm) THEN nm ELSE Str("unknown node")

\* lines 281-299; ok is FALSE when line 289 raises (unhashable key)
Reconcile(n, sn) ==
    LET name == Get(n, "name")
        key == LookupKey(n)
    IN  IF Truthy(key) /\ ~Hashable(key) THEN [ok |-> FALSE, node |-> n]
        ELSE IF Matches(n, sn)
        THEN [ok |-> TRUE,
              node |-> Put(Backfill(n, Item(sn, key).kv), "name",
                           ResolveName(name, TRUE, Item(sn, key)))]
        ELSE [ok |-> TRUE,
              node |-> Put(n, "name", ResolveName(name, FALSE, Null))]

---------------------------------------------------------------------------
(* 4. Metric normalisation (lines 301-372).  A derived number or text is   *)
(* kept as the expression that computes it: Fmt("gb", <<b>>) is            *)
(* round(b / 1024**3, 2), Fmt("pct", <<u, t>>) is round(u / t * 100, 1),   *)
(* Fmt("MB/s", <<b>>) is f"{b/1024/1024:.1f} MB/s", and so on.  Each step  *)
(* gives ok = FALSE when it raises.                                        *)

Fmt(f, args) == [t |-> "fmt", f |-> f, of |-> args]

\* float(x) succeeds
FloatOk(x) == IsNum(x) \/ (IsStr(x) /\ json_loads(x).ok /\ IsNum(json_loads(x).v))

\* float(x), when it succeeds
Float(x) == IF IsNum(x) THEN x ELSE json_loads(x).v

\* lines 303-307
StepCpu(n) ==
    IF Has(n, "cpu") /\ IsDict(Item(n, "cpu"))
    THEN LET cpu_usage == GetOr(Item(n, "cpu"), "usage", Num(0))
         IN  IF cpu_usage = Null THEN [ok |-> TRUE, node |-> n]
             ELSE IF ~FloatOk(cpu_usage) THEN [ok |-> FALSE, node |-> n]
             ELSE [ok |-> TRUE, node |-> Put(n, "cpu_usage_percent", Float(cpu_usage))]
    ELSE [ok |-> TRUE, node |-> n]

\* lines 310-319 (group "ram", flat "mem_total") and 322-330 ("disk",
\* "disk_total"); pre is the prefix of the derived fields
StepSize(n, group, flat, pre) ==
    IF Has(n, group) /\ IsDict(Item(n, group))
    THEN LET total == GetOr(Item(n, group), "total", Num(0))
             used == GetOr(Item(n, group), "used", Num(0))
         IN  IF ~IsNum(total) THEN [ok |-> FALSE, node |-> n]
             ELSE IF total.n <= 0 THEN [ok |-> TRUE, node |-> n]
             ELSE IF ~IsNum(used)
                  THEN [ok |-> FALSE, node |-> Put(n, pre \o "_total_gb", Fmt("gb", <<total.n>>))]
                  ELSE [ok |-> TRUE,
                        node |-> Put(Put(Put(n,
                                   pre \o "_total_gb", Fmt("gb", <<total.n>>)),
                                   pre \o "_used_gb", Fmt("gb", <<used.n>>)),
                                   pre \o "_usage_percent", Fmt("pct", <<used.n, total.n>>))]
    ELSE IF Has(n, flat)
         THEN IF ~IsNum(Item(n, flat)) THEN [ok |-> FALSE, node |-> n]
              ELSE [ok |-> TRUE,
                    node |-> Put(n, pre \o "_total_gb", Fmt("gb", <<Item(n, flat).n>>))]
         ELSE [ok |-> TRUE, node |-> n]

\* fmt_speed (lines 338-342)
fmt_speed(b) == IF b > 1024 * 1024 THEN Fmt("MB/s", <<b>>) ELSE Fmt("KB/s", <<b>>)

\* fmt_traffic (lines 350-354)
fmt_traffic(b) == IF b > 1024 * 1024 * 1024 THEN Fmt("GB", <<b>>) ELSE Fmt("MB", <<b>>)

\* lines 333-357
StepNetwork(n) ==
    IF Has(n, "network") /\ IsDict(Item(n, "network"))
    THEN LET net == Item(n, "network")
             up == GetOr(net, "up", Num(0))
             down == GetOr(net, "down", Num(0))
             total_up == GetOr(net, "totalUp", Num(0))
             total_down == GetOr(net, "totalDown", Num(0))
         IN  IF ~(IsNum(up) /\ IsNum(down) /\ IsNum(total_up) /\ IsNum(total_down))
             THEN [ok |-> FALSE, node |-> n]
             ELSE [ok |-> TRUE,
                   node |-> Put(Put(Put(Put(n,
                              "net_up_str", fmt_speed(up.n)),
                              "net_down_str", fmt_speed(down.n)),
                              "traffic_up_str", fmt_traffic(total_up.n)),
                              "traffic_down_str", fmt_traffic(total_down.n))]
    ELSE [ok |-> TRUE, node |-> n]

\* lines 360-364
StepUptime(n) ==
    IF Has(n, "uptime")
    THEN LET uptime_sec == Item(n, "uptime")
         IN  IF ~IsNum(uptime_sec) THEN [ok |-> FALSE, node |-> n]
             ELSE [ok |-> TRUE,
                   node |-> Put(n, "uptime_str",
                                Fmt("uptime", <<uptime_sec.n \div 86400,
                                                (uptime_sec.n % 86400) \div 3600>>))]
    ELSE [ok |-> TRUE, node |-> n]

\* lines 367-370
StepLoad(n) ==
    IF Has(n, "load") /\ IsDict(Item(n, "load"))
    THEN [ok |-> TRUE,
          node |-> Put(Put(Put(n,
                     "load_1", Get(Item(n, "load"), "load1")),
                     "load_5", Get(Item(n, "load"), "load5")),
                     "load_15", Get(Item(n, "load"), "load15"))]
    ELSE [ok |-> TRUE, node |-> n]

StepRam(n) == StepSize(n, "ram", "mem_total", "ram")
StepDisk(n) == StepSize(n, "disk", "disk_total", "disk")

\* lines 301-370 in program order
Metrics(n) ==
    LET r1 == StepCpu(n)
        r2 == IF r1.ok THEN StepRam(r1.node) ELSE r1
        r3 == IF r2.ok THEN StepDisk(r2.node) ELSE r2
        r4 == IF r3.ok THEN StepNetwork(r3.node) ELSE r3
        r5 == IF r4.ok THEN StepUptime(r4.node) ELSE r4
    IN  IF r5.ok THEN StepLoad(r5.node) ELSE r5

---------------------------------------------------------------------------
(* Inputs.  An invocation is fed from one of five families, so that each   *)
(* part of the handler meets a rich set of inputs without the product of   *)
(* all of them: "inventory" varies the node list, "stream" the frames and  *)
(* the shape of the payload, "records" the raw record sequence, "merge"    *)
(* the fields of one raw record and of its static record.                  *)

Scopes == {"inventory", "stream", "records", "merge", "metrics"}

SeqsUpTo(S, n) == UNION {[1..k -> S] : k \in 0..n}

\* a field that is absent, or present with a value of S
Field(k, S) == {<< >>} \cup {<< <<k, v>> >> : v \in S}

\* the body of a successful /api/nodes answer with the node list ns
NodesBody(ns) == Dict(<< <<"status", Str("success")>>, <<"data", ns>> >>)

InventoryNodes ==
    {Dict(i \o u \o << <<"os", Str("linux")>> >>) :
        i \in Field("id", {Str(""), Str("a")}),
        u \in Field("uuid", {Null, Str("a"), Str("b")})}

MergeStatic ==
    {Dict(<< <<"id", Str("a")>> >> \o u \o nm \o o) :
        u \in Field("uuid", {Str("b")}),
        nm \in Field("name", {Null, Str(""), Str("Box1")}),
        o \in Field("os", {Str("linux")})}

StreamStatic ==
    Dict(<< <<"id", Str("a")>>, <<"uuid", Str("b")>>, <<"name", Str("Box1")>>,
            <<"os", Str("linux")>>, <<"mem_total", Num(8)>> >>)

\* what _fetch_api("/api/nodes") returns as data: None (non-200 status,
\* transport error, body that is no JSON) or the decoded body
ApiResults(sc) ==
    CASE sc = "inventory" ->
            {NodesBody(List(ns)) : ns \in SeqsUpTo(InventoryNodes \cup {Num(7)}, MaxNodes)}
            \cup {Null, List(<<Num(1)>>), Dict(<< <<"status", Str("success")>> >>),
                  NodesBody(Num(1)), NodesBody(Str("a")), NodesBody(Null),
                  NodesBody(Dict(<< <<"a", StreamStatic>> >>))}
      [] sc = "merge" -> {NodesBody(List(<<n>>)) : n \in MergeStatic}
      [] sc = "records" -> {Null, NodesBody(List(<<StreamStatic>>))}
      [] sc = "stream" -> {NodesBody(List(<<StreamStatic>>))}
      [] sc = "metrics" -> {Null}

\* a raw record that says where it came from
Rec(k) == Dict(<< <<"name", Str(k)>> >>)

Ids == {Str("a"), Str("b"), Str("c")}

\* the online/detail-map shape, well typed: identifiers, and records by key
DetailMaps ==
    {Dict(a \o b) :
        a \in Field("a", {Rec("A")}),
        b \in Field("b", {Dict(<< <<"uuid", Str("old")>>, <<"id", Str("a")>> >>)})}

TypedOnlinePayloads ==
    {Dict(<< <<"online", List(ids)>>, <<"data", dt>> >> \o x) :
        ids \in SeqsUpTo(Ids, MaxOnline), dt \in DetailMaps,
        x \in Field("nodes", {List(<<Rec("nodes")>>)})}

\* payloads with both keys whose values have other types
OddOnlinePayloads ==
    {Dict(<< <<"online", p[1]>>, <<"data", p[2]>> >>) : p \in
        {<<Null, Dict(<< >>)>>,
         <<Num(1), Dict(<< <<"a", Rec("A")>> >>)>>,
         <<Str("a"), Dict(<< <<"a", Rec("A")>> >>)>>,
         <<List(<<Null>>), Dict(<< <<"a", Rec("A")>> >>)>>,
         <<List(<<Str("a")>>), Dict(<< <<"a", Str("x")>> >>)>>,
         <<List(<<Str("a"), Str("b")>>), Dict(<< <<"a", Rec("A")>>, <<"b", Num(1)>> >>)>>,
         <<List(<<Str("a")>>), List(<<Rec("d")>>)>>,
         <<List(<<Str("a")>>), List(<<Str("a")>>)>>,
         <<List(<<Str("a")>>), Str("a")>>,
         <<List(<<Str("a")>>), Null>>}}
    \cup {Dict(<< <<"nodes", List(<<Rec("nodes")>>)>>,
                  <<"online", List(<<Str("a")>>)>>, <<"data", Str("x")>> >>)}

OnlinePayloads == TypedOnlinePayloads \cup OddOnlinePayloads

KeyedPayloads ==
    {Dict(x \o a \o b \o c \o d \o e) :
        x \in Field("other", {Rec("other")}),
        a \in Field("servers", {List(<<Rec("servers")>>), Str("x")}),
        b \in Field("nodes", {List(<< >>), List(<<Rec("nodes"), Num(7)>>)}),
        c \in Field("clients", {List(<<Rec("clients")>>)}),
        d \in Field("list", {Rec("list")}),
        e \in Field("data", {List(<<Rec("data")>>), Str("x"),
                             Dict(<< <<"q", Rec("q")>> >>)})}

IdMapPayloads ==
    {Dict(a \o b \o c) :
        a \in Field("n1", {Rec("n1"), Str("x")}),
        b \in Field("online", {List(<<Str("n1")>>)}),
        c \in Field("n2", {Rec("n2"), Num(1)})}

StreamPayloads ==
    {Null, Num(0), Num(5), Str(""), Str("a"), List(<< >>),
     List(<<Rec("x"), Json(Rec("y"))>>), List(<<Num(7)>>)}
    \cup OnlinePayloads \cup KeyedPayloads \cup IdMapPayloads

\* elements of a raw record sequence: valid ones, ones to drop, and valid
\* ones whose reconciliation or metrics raise
Elems ==
    {Dict(<< <<"uuid", Str("b")>>, <<"name", Str("Unknown")>> >>),
     Json(Dict(<< <<"id", Str("z")>>, <<"name", Str("n2")>> >>)),
     Str("oops"),
     Json(Num(5)),
     Num(7),
     Dict(<< <<"id", Str("a")>>,
             <<"ram", Dict(<< <<"total", Num(8)>>, <<"used", Num(4)>> >>)>>,
             <<"uptime", Num(90000)>> >>),
     Dict(<< <<"uuid", Str("b")>>, <<"ram", Dict(<< <<"total", Null>> >>)>> >>),
     Dict(<< <<"uuid", List(<<Str("b")>>)>> >>)}

MergeRaw ==
    {Dict(u \o i \o nm \o o) :
        u \in Field("uuid", {Null, Str(""), Str("b"), Str("z")}),
        i \in Field("id", {Str("a")}),
        nm \in Field("name", {Null, Str(""), Str("Unknown"), Str("n1")}),
        o \in Field("os", {Null, Str("bsd")})}

\* raw records for the metric steps: each group absent, not a mapping, well
\* formed, or with an inner value that is missing, null or not a number
MetricRecs ==
    {Dict(<< <<"name", Str("n1")>> >> \o c \o r \o m \o d \o n \o u \o l) :
        c \in Field("cpu", {Str("x"), Dict(<< >>), Dict(<< <<"usage", Num(1)>> >>),
                            Dict(<< <<"usage", Null>> >>),
                            Dict(<< <<"usage", Str("x")>> >>)}),
        r \in Field("ram", {Num(3), Dict(<< <<"total", Num(8)>>, <<"used", Num(4)>> >>),
                            Dict(<< <<"total", Null>>, <<"used", Num(4)>> >>),
                            Dict(<< <<"total", Num(8)>>, <<"used", Str("x")>> >>)}),
        m \in Field("mem_total", {Num(8), Null}),
        d \in Field("disk", {Dict(<< <<"total", Num(9)>>, <<"used", Num(3)>> >>)}),
        n \in Field("network", {Dict(<< <<"up", Num(2048)>> >>),
                                Dict(<< <<"up", Null>>, <<"down", Num(1)>> >>)}),
        u \in Field("uptime", {Num(90000), Null, Str("x")}),
        l \in Field("load", {Str("x"), Dict(<< <<"load1", Num(1)>> >>)})}

\* a raw record all of whose groups are well formed
GoodRec ==
    Dict(<< <<"name", Str("n2")>>,
            <<"cpu", Dict(<< <<"usage", Num(2)>> >>)>>,
            <<"uptime", Num(3600)>> >>)

Payloads(sc) ==
    CASE sc = "inventory" -> {List(<<Dict(<< <<"uuid", Str("a")>> >>)>>)}
      [] sc = "stream" -> StreamPayloads
      [] sc = "records" -> {List(es) : es \in SeqsUpTo(Elems, MaxLen)}
      [] sc = "merge" -> {List(<<r>>) : r \in MergeRaw}
      [] sc = "metrics" -> {List(<<r, GoodRec>>) : r \in MetricRecs}

\* a TEXT frame carrying {"status": "success", "data": p}
SuccessFrame(p) ==
    [type |-> "TEXT",
     data |-> Json(Dict(<< <<"status", Str("success")>>, <<"data", p>> >>))]

\* frames that carry no payload: texts that do not decode or are no success
\* answer, and frames of the other types (BINARY stands for every type the
\* loop has no branch for)
OtherFrames ==
    {[type |-> "TEXT", data |-> Str("oops")],
     [type |-> "TEXT", data |-> Json(List(<<Rec("x")>>))],
     [type |-> "TEXT", data |-> Json(Dict(<< <<"status", Str("error")>>,
                                             <<"data", List(<<Rec("x")>>)>> >>))],
     [type |-> "TEXT", data |-> Json(Dict(<< <<"status", Str("success")>> >>))],
     [type |-> "BINARY", data |-> Null],
     [type |-> "CLOSED", data |-> Null],
     [type |-> "ERROR", data |-> Null]}

\* what ws.receive() may return
Frames(sc) ==
    {SuccessFrame(p) : p \in Payloads(sc)}
    \cup (IF sc = "stream" THEN OtherFrames ELSE {})

NoMsg == [type |-> "NONE", data |-> Null]

\* a yielded result
Msg(kind, body) == [kind |-> kind, body |-> body]

---------------------------------------------------------------------------
(* The invocation. *)

Init ==
    /\ scope \in Scopes
    /\ komari_url \in BOOLEAN
    /\ pc = "start"
    /\ data = Null
    /\ static_nodes = Dict(<< >>)
    /\ ws = "none"
    /\ connects = 0
    /\ sent = << >>
    /\ reads = 0
    /\ msg = NoMsg
    /\ raw_data = Null
    /\ realtime_data = List(<< >>)
    /\ idx = 0
    /\ node = Null
    /\ processed_nodes = << >>
    /\ out = << >>

\* lines 152-154
NoUrl ==
    /\ pc = "start" /\ ~komari_url
    /\ out' = Append(out, Msg("config", << >>))
    /\ pc' = "done"
    /\ UNCHANGED <<scope, komari_url, data, static_nodes, ws,
                   connects, sent, reads, msg, raw_data, realtime_data, idx,
                   node, processed_nodes>>

\* line 152, configured
Begin ==
    /\ pc = "start" /\ komari_url
    /\ pc' = "fetch"
    /\ UNCHANGED <<scope, komari_url, data, static_nodes, ws,
                   connects, sent, reads, msg, raw_data, realtime_data, idx,
                   node, processed_nodes, out>>

\* line 159: the REST call returns
FetchApi ==
    /\ pc = "fetch"
    /\ \E d \in ApiResults(scope) : data' = d
    /\ pc' = "index"
    /\ UNCHANGED <<scope, komari_url, static_nodes, ws,
                   connects, sent, reads, msg, raw_data, realtime_data, idx,
                   node, processed_nodes, out>>

\* lines 160-167
BuildIndex ==
    /\ pc = "index"
    /\ static_nodes' = BuildStaticNodes(data)
    /\ pc' = "connect"
    /\ UNCHANGED <<scope, komari_url, data, ws,
                   connects, sent, reads, msg, raw_data, realtime_data, idx,
                   node, processed_nodes, out>>

\* lines 181-182: the session is established
ConnectOk ==
    /\ pc = "connect"
    /\ connects' = connects + 1
    /\ ws' = "open"
    /\ pc' = "send"
    /\ UNCHANGED <<scope, komari_url, data, static_nodes,
                   sent, reads, msg, raw_data, realtime_data, idx,
                   node, processed_nodes, out>>

\* line 182 raises
ConnectFail ==
    /\ pc = "connect"
    /\ connects' = connects + 1
    /\ pc' = "except"
    /\ UNCHANGED <<scope, komari_url, data, static_nodes, ws,
                   sent, reads, msg, raw_data, realtime_data, idx,
                   node, processed_nodes, out>>

\* line 183
SendGet ==
    /\ pc = "send"
    /\ sent' = Append(sent, "get")
    /\ pc' = "recv"
    /\ UNCHANGED <<scope, komari_url, data, static_nodes, ws,
                   connects, reads, msg, raw_data, realtime_data, idx,
                   node, processed_nodes, out>>

\* line 183 raises: the session's context manager closes it on the way out
SendFail ==
    /\ pc = "send"
    /\ ws' = "closed"
    /\ pc' = "except"
    /\ UNCHANGED <<scope, komari_url, data, static_nodes,
                   connects, sent, reads, msg, raw_data, realtime_data, idx,
                   node, processed_nodes, out>>

\* line 199 has run for the frame m
SetsRawData(m) ==
    m.type = "TEXT" /\ json_loads(m.data).ok /\ IsSuccess(json_loads(m.data).v)

\* lines 186-217: one pass of the receive loop
Receive ==
    /\ pc = "recv"
    /\ \E m \in Frames(scope) :
          /\ msg' = m
          /\ raw_data' = IF SetsRawData(m)
                         THEN GetOr(json_loads(m.data).v, "data", Dict(<< >>))
                         ELSE raw_data
          /\ realtime_data' = HandleFrame(m, realtime_data).rd
          /\ pc' = IF HandleFrame(m, realtime_data).brk \/ reads + 1 = MaxAttempts
                   THEN "close" ELSE "recv"
    /\ reads' = reads + 1
    /\ UNCHANGED <<scope, komari_url, data, static_nodes, ws,
                   connects, sent, idx, node, processed_nodes, out>>

\* variant of ReceiveFail in which the session outlives the exception
ReceiveFailLeavingOpen ==
    /\ pc = "recv"
    /\ pc' = "except"
    /\ UNCHANGED <<scope, komari_url, data, static_nodes, ws,
                   connects, sent, reads, msg, raw_data, realtime_data, idx,
                   node, processed_nodes, out>>

\* line 187 raises
ReceiveFail ==
    /\ pc = "recv"
    /\ ws' = "closed"
    /\ pc' = "except"
    /\ UNCHANGED <<scope, komari_url, data, static_nodes,
                   connects, sent, reads, msg, raw_data, realtime_data, idx,
                   node, processed_nodes, out>>

\* the loop is over: the async with blocks of lines 181-182 exit
CloseSession ==
    /\ pc = "close"
    /\ ws' = "closed"
    /\ pc' = "check"
    /\ UNCHANGED <<scope, komari_url, data, static_nodes,
                   connects, sent, reads, msg, raw_data, realtime_data, idx,
                   node, processed_nodes, out>>

\* variant of ConnectionError that yields the message of line 223
ConnectionErrorAsNoData ==
    /\ pc = "except"
    /\ out' = Append(out, Msg("no_data", << >>))
    /\ pc' = "done"
    /\ UNCHANGED <<scope, komari_url, data, static_nodes, ws,
                   connects, sent, reads, msg, raw_data, realtime_data, idx,
                   node, processed_nodes>>

\* lines 218-220
ConnectionError ==
    /\ pc = "except"
    /\ out' = Append(out, Msg("connection_failed", << >>))
    /\ pc' = "done"
    /\ UNCHANGED <<scope, komari_url, data, static_nodes, ws,
                   connects, sent, reads, msg, raw_data, realtime_data, idx,
                   node, processed_nodes>>

\* lines 222-224
NoData ==
    /\ pc = "check" /\ ~Truthy(realtime_data)
    /\ out' = Append(out, Msg("no_data", << >>))
    /\ pc' = "done"
    /\ UNCHANGED <<scope, komari_url, data, static_nodes, ws,
                   connects, sent, reads, msg, raw_data, realtime_data, idx,
                   node, processed_nodes>>

\* line 222, with data
HasData ==
    /\ pc = "check" /\ Truthy(realtime_data)
    /\ pc' = "shape"
    /\ UNCHANGED <<scope, komari_url, data, static_nodes, ws,
                   connects, sent, reads, msg, raw_data, realtime_data, idx,
                   node, processed_nodes, out>>

\* lines 245-261 and the start of the for loop at line 267
Shape ==
    /\ pc = "shape" /\ Normalize(realtime_data).kind = "seq"
    /\ realtime_data' = List(Normalize(realtime_data).e)
    /\ idx' = 1
    /\ pc' = "loop"
    /\ UNCHANGED <<scope, komari_url, data, static_nodes, ws,
                   connects, sent, reads, msg, raw_data, node,
                   processed_nodes, out>>

\* lines 262-265
FormatError ==
    /\ pc = "shape" /\ Normalize(realtime_data).kind = "format"
    /\ out' = Append(out, Msg("format", Normalize(realtime_data).e))
    /\ pc' = "done"
    /\ UNCHANGED <<scope, komari_url, data, static_nodes, ws,
                   connects, sent, reads, msg, raw_data, realtime_data, idx,
                   node, processed_nodes>>

\* line 267 raises: the payload is not iterable
NotIterable ==
    /\ pc = "shape" /\ Normalize(realtime_data).kind = "raise"
    /\ pc' = "raised"
    /\ UNCHANGED <<scope, komari_url, data, static_nodes, ws,
                   connects, sent, reads, msg, raw_data, realtime_data, idx,
                   node, processed_nodes, out>>

\* lines 267-279 for an element that is kept
Keep ==
    /\ pc = "loop" /\ idx <= Len(realtime_data.e)
    /\ Validate(realtime_data.e[idx]).keep
    /\ node' = Validate(realtime_data.e[idx]).node
    /\ idx' = idx + 1
    /\ pc' = "reconcile"
    /\ UNCHANGED <<scope, komari_url, data, static_nodes, ws,
                   connects, sent, reads, msg, raw_data, realtime_data,
                   processed_nodes, out>>

\* lines 267-279 for an element that is dropped (continue)
Drop ==
    /\ pc = "loop" /\ idx <= Len(realtime_data.e)
    /\ ~Validate(realtime_data.e[idx]).keep
    /\ idx' = idx + 1
    /\ UNCHANGED <<scope, komari_url, pc, data, static_nodes, ws,
                   connects, sent, reads, msg, raw_data, realtime_data, node,
                   processed_nodes, out>>

\* lines 281-299
ReconcileNode ==
    /\ pc = "reconcile" /\ Reconcile(node, static_nodes).ok
    /\ node' = Reconcile(node, static_nodes).node
    /\ pc' = "metrics"
    /\ UNCHANGED <<scope, komari_url, data, static_nodes, ws,
                   connects, sent, reads, msg, raw_data, realtime_data, idx,
                   processed_nodes, out>>

\* line 289 raises
ReconcileRaises ==
    /\ pc = "reconcile" /\ ~Reconcile(node, static_nodes).ok
    /\ pc' = "raised"
    /\ UNCHANGED <<scope, komari_url, data, static_nodes, ws,
                   connects, sent, reads, msg, raw_data, realtime_data, idx,
                   node, processed_nodes, out>>

\* lines 301-372
NormalizeNode ==
    /\ pc = "metrics" /\ Metrics(node).ok
    /\ processed_nodes' = Append(processed_nodes, Metrics(node).node)
    /\ node' = Null
    /\ pc' = "loop"
    /\ UNCHANGED <<scope, komari_url, data, static_nodes, ws,
                   connects, sent, reads, msg, raw_data, realtime_data, idx,
                   out>>

\* one of lines 307-364 raises
MetricsRaise ==
    /\ pc = "metrics" /\ ~Metrics(node).ok
    /\ pc' = "raised"
    /\ UNCHANGED <<scope, komari_url, data, static_nodes, ws,
                   connects, sent, reads, msg, raw_data, realtime_data, idx,
                   node, processed_nodes, out>>

\* the names a report lists (lines 381-385, 430-431)
Names(nodes) == [j \in 1..Len(nodes) |-> Get(nodes[j], "name")]

\* lines 379-385: self.config.image_output, read at line 375, is off
TextReport ==
    /\ pc = "loop" /\ idx > Len(realtime_data.e)
    /\ out' = Append(out, Msg("report", Names(processed_nodes)))
    /\ pc' = "done"
    /\ UNCHANGED <<scope, komari_url, data, static_nodes, ws,
                   connects, sent, reads, msg, raw_data, realtime_data, idx,
                   node, processed_nodes>>

\* lines 375-378, image_output on, and _handle_realtime_image_gen (lines
\* 387-432): no template, a rendered image, no image URL, or the text
\* fallback after a render error
ImageReport ==
    /\ pc = "loop" /\ idx > Len(realtime_data.e)
    /\ \E kind \in {"no_template", "image", "no_image", "report"} :
          out' = Append(out, Msg(kind, IF kind \in {"image", "report"}
                                       THEN Names(processed_nodes) ELSE << >>))
    /\ pc' = "done"
    /\ UNCHANGED <<scope, komari_url, data, static_nodes, ws,
                   connects, sent, reads, msg, raw_data, realtime_data, idx,
                   node, processed_nodes>>

Next ==
    \/ NoUrl \/ Begin \/ FetchApi \/ BuildIndex
    \/ ConnectOk \/ ConnectFail \/ SendGet \/ SendFail
    \/ Receive \/ ReceiveFail \/ CloseSession \/ ConnectionError
    \/ NoData \/ HasData \/ Shape \/ FormatError \/ NotIterable
    \/ Keep \/ Drop \/ ReconcileNode \/ ReconcileRaises
    \/ NormalizeNode \/ MetricsRaise \/ TextReport \/ ImageReport

Spec == Init /\ [][Next]_vars

---------------------------------------------------------------------------
(* Properties. *)

\* the receive loop ended (break or exhaustion) and the session block was
\* left without an exception
LoopOver ==
    \/ pc \in {"check", "shape", "loop", "reconcile", "metrics", "raised"}
    \/ pc = "done" /\ out \notin {<<Msg("config", << >>)>>,
                                  <<Msg("connection_failed", << >>)>>}

\* the claims' notion of a valid element: a mapping, or a string that
\* decodes to a mapping
IsValidElem(e) ==
    IsDict(e) \/ (IsStr(e) /\ "json" \in DOMAIN e /\ IsDict(e.json))

\* C1: as soon as a received text frame decodes to a mapping whose status is
\* "success", its data field is the payload and no further frame is read:
\* the loop is never waiting for another frame after such a frame.
C1_SuccessFrameEndsLoop ==
    SetsRawData(msg) =>
        /\ pc \notin {"recv", "except"}
        /\ raw_data = GetOr(msg.data.json, "data", Dict(<< >>))

\* C2: one "get" is sent before any frame is read, at most 3 frames are read,
\* a text frame that does not decode ends the loop only as the third frame,
\* and a CLOSED or ERROR frame ends the loop with no payload.
C2_BoundedReceiveLoop ==
    /\ Len(sent) <= 1
    /\ reads > 0 => sent = <<"get">>
    /\ reads <= MaxAttempts
    /\ (msg.type = "TEXT" /\ "json" \notin DOMAIN msg.data
           /\ (pc = "close" \/ LoopOver))
          => reads = MaxAttempts
    /\ msg.type \in {"CLOSED", "ERROR"}
          => /\ pc \in {"close", "check", "done"}
             /\ realtime_data = List(<< >>)
             /\ idx = 0 /\ processed_nodes = << >>
             /\ out \in {<< >>, <<Msg("no_data", << >>)>>}

C2_Witness ==
    /\ pc = "done" /\ reads = 2 /\ msg.type = "ERROR" /\ sent = <<"get">>
    /\ out = <<Msg("no_data", << >>)>>

\* the online/detail-map shape as the claims state it: a sequence of
\* identifiers and a mapping from identifier to record
TypedOnlineShape(p) ==
    /\ IsDict(p) /\ Has(p, "online") /\ Has(p, "data")
    /\ IsList(Item(p, "online"))
    /\ \A j \in 1..Len(Item(p, "online").e) :
          IsStr(Item(p, "online").e[j]) /\ "s" \in DOMAIN Item(p, "online").e[j]
    /\ IsDict(Item(p, "data"))
    /\ \A j \in 1..Len(Item(p, "data").kv) : IsDict(Item(p, "data").kv[j][2])

\* the identifiers of online that are keys of the detail map, in order
ListedIds(p) ==
    SelectSeq(Item(p, "online").e, LAMBDA u : Has(Item(p, "data"), u.s))

\* C3: for a payload of the online/detail-map shape the raw records are the
\* detail-map records of the identifiers of online that are keys of the
\* map, in the order of online, each with uuid set to its identifier.
C3_OnlineRecords ==
    TypedOnlineShape(raw_data) =>
        /\ pc # "recv"
        /\ IsList(realtime_data)
        /\ Len(realtime_data.e) = Len(ListedIds(raw_data))
        /\ \A j \in 1..Len(realtime_data.e) :
              LET u == ListedIds(raw_data)[j]
                  rec == Item(Item(raw_data, "data"), u.s)
              IN  /\ Item(realtime_data.e[j], "uuid") = u
                  /\ \A k \in {rec.kv[i][1] : i \in 1..Len(rec.kv)} \ {"uuid"} :
                        Get(realtime_data.e[j], k) = Item(rec, k)
                  /\ \A i \in 1..Len(realtime_data.e[j].kv) :
                        realtime_data.e[j].kv[i][1] = "uuid"
                        \/ Has(rec, realtime_data.e[j].kv[i][1])

C3_Witness ==
    /\ TypedOnlineShape(raw_data) /\ pc = "loop" /\ idx = 1
    /\ Item(raw_data, "online") = List(<<Str("c"), Str("b")>>)
    /\ Len(Item(raw_data, "data").kv) = 2
    /\ Len(realtime_data.e) = 1
    /\ Item(realtime_data.e[1], "uuid") = Str("b")

\* the first key of the fixed order whose value is a sequence
FirstListKey(p) ==
    CHOOSE k \in {"servers", "nodes", "clients", "list", "data"} :
        /\ Has(p, k) /\ IsList(Item(p, k))
        /\ \A j \in 1..Len(ListKeys) :
              (Has(p, ListKeys[j]) /\ IsList(Item(p, ListKeys[j])))
                 => \E i \in 1..j : ListKeys[i] = k

\* a mapping that is not the online/detail-map shape and has a sequence
\* under one of the conventional keys
KeyedListShape(p) ==
    /\ IsDict(p)
    /\ ~(Has(p, "online") /\ IsList(Item(p, "online"))
         /\ Has(p, "data") /\ IsDict(Item(p, "data")))
    /\ \E k \in {"servers", "nodes", "clients", "list", "data"} :
          Has(p, k) /\ IsList(Item(p, k))

\* C4: for such a payload the raw records are the elements of the sequence
\* under the first conventional key that holds one, in their order.
C4_FirstListKeyWins ==
    (KeyedListShape(raw_data) /\ pc = "done" /\ LoopOver)
        => (idx > 0 /\ realtime_data = Item(raw_data, FirstListKey(raw_data)))

\* the valid elements of the raw sequence, in order
ValidElems == SelectSeq(realtime_data.e, IsValidElem)

\* C5: an element that is no mapping and no string decoding to a mapping is
\* dropped without aborting the invocation, and the final list of processed
\* records holds one record per valid element, in the order of the raw
\* sequence.
C5_OneRecordPerValidElement ==
    (idx > 0 /\ pc \in {"done", "raised"}) =>
        /\ pc = "done"
        /\ Len(processed_nodes) = Len(ValidElems)
        /\ \A j \in 1..Len(processed_nodes) :
              \A k \in {"uuid", "id"} :
                  Get(Validate(ValidElems[j]).node, k) # Null
                     => Get(processed_nodes[j], k) = Get(Validate(ValidElems[j]).node, k)

\* the raw record whose reconciliation has just run
RawNode == Validate(realtime_data.e[idx - 1]).node

\* the names of the fields of a record
FieldsOf(d) == {d.kv[j][1] : j \in 1..Len(d.kv)}

ExpectedName(raw, matched, st) ==
    LET name == Get(raw, "name")
    IN  IF Truthy(name) /\ ~(matched /\ name = Str("Unknown")) THEN name
        ELSE IF matched /\ Has(st, "name") /\ Truthy(Item(st, "name")) THEN Item(st, "name")
        ELSE IF matched /\ Has(st, "name") THEN Str("unknown node")
        ELSE IF Truthy(name) THEN name
        ELSE Str("unknown node")

HasNodeList ==
    /\ pc \notin {"start", "fetch", "index"}
    /\ IsDict(data) /\ IsList(Get(data, "data"))
    /\ \A j \in 1..Len(Get(data, "data").e) : IsDict(Get(data, "data").e[j])

NodeList == Get(data, "data").e

\* C7, as claimed: the mapping has an entry for every node under each of its
\* non-null keys, and that entry is the node's own record.
C7_EveryNonNullKeyIndexed ==
    HasNodeList =>
        \A j \in 1..Len(NodeList) : \A f \in {"id", "uuid"} :
            Get(NodeList[j], f) # Null
               => /\ Has(static_nodes, Get(NodeList[j], f))
                  /\ Item(static_nodes, Get(NodeList[j], f)) = NodeList[j]

\* node j carries key under id or uuid
Carries(j, key) ==
    \E f \in {"id", "uuid"} : Truthy(Get(NodeList[j], f)) /\ Get(NodeList[j], f) = key

\* C7, amended: the mapping has an entry for every node under each of its
\* truthy keys (not null, not empty), and that entry is the record of the
\* last node of the list that carries the key: the node's own record unless
\* a later node reuses the key.  The mapping has no other key.
C7_EveryTruthyKeyIndexed ==
    HasNodeList =>
        /\ \A j \in 1..Len(NodeList) : \A f \in {"id", "uuid"} :
              Truthy(Get(NodeList[j], f))
                 => /\ Has(static_nodes, Get(NodeList[j], f))
                    /\ \E i \in j..Len(NodeList) :
                          /\ Carries(i, Get(NodeList[j], f))
                          /\ \A h \in (i + 1)..Len(NodeList) : ~Carries(h, Get(NodeList[j], f))
                          /\ Item(static_nodes, Get(NodeList[j], f)) = NodeList[i]
        /\ \A i \in 1..Len(static_nodes.kv) :
              \E j \in 1..Len(NodeList) : Carries(j, static_nodes.kv[i][1])

C7_Witness ==
    /\ HasNodeList /\ pc = "connect" /\ Len(NodeList) = 2
    /\ Get(NodeList[1], "id") = Str("a") /\ Get(NodeList[1], "uuid") = Str("b")
    /\ Get(NodeList[2], "uuid") = Str("a") /\ ~Has(NodeList[2], "id")
    /\ Item(static_nodes, Str("b")) = NodeList[1]
    /\ Item(static_nodes, Str("a")) = NodeList[2]

\* C8: a failed connection attempt yields the connection-error message and
\* nothing else, and no record is processed; a failed inventory fetch leaves
\* the inventory empty and the connection is attempted all the same.
C8_ConnectionFailureStops ==
    /\ (connects = 1 /\ ws = "none")
          => /\ pc \in {"except", "done"}
             /\ reads = 0 /\ sent = << >>
             /\ idx = 0 /\ node = Null /\ processed_nodes = << >>
             /\ out = IF pc = "done" THEN <<Msg("connection_failed", << >>)>> ELSE << >>
             /\ out # <<Msg("no_data", << >>)>>
    /\ (komari_url /\ pc \notin {"start", "fetch"} /\ data = Null)
          => /\ static_nodes = Dict(<< >>)
             /\ pc \notin {"index", "connect"} => connects = 1

C8_Witness ==
    /\ pc = "done" /\ connects = 1 /\ ws = "none" /\ data = Null
    /\ out = <<Msg("connection_failed", << >>)>>

\* C9: the session is closed on every way out of the receive loop, before any
\* record is processed or any message yielded; there is at most one
\* connection attempt, made after the inventory call has returned.
C9_SessionClosedOnExit ==
    /\ connects <= 1
    /\ connects = 1 => pc \notin {"start", "fetch", "index", "connect"}
    /\ pc \in {"start", "fetch", "index", "connect"} => ws = "none"
    /\ ws = "open" => pc \in {"send", "recv", "close"}
    /\ (pc \notin {"send", "recv", "close"} /\ connects = 1 /\ (sent # << >> \/ reads > 0))
          => ws = "closed"
    /\ (out # << >> \/ idx > 0 \/ node # Null \/ processed_nodes # << >>) => ws # "open"

C9_Witness ==
    /\ pc = "except" /\ ws = "closed" /\ reads = 2 /\ out = << >>

\* C10: with a payload extracted and no valid record left after the shape
\* is normalised and the elements validated, the "no data" message is
\* yielded instead of a report; with a valid record left, no error message
\* is yielded.
C10_NoDataWhenNothingValid ==
    (pc = "done" /\ idx > 0) =>
        IF ValidElems = << >>
        THEN out = <<Msg("no_data", << >>)>>
        ELSE Len(out) = 1 /\ out[1].kind \notin {"no_data", "format", "connection_failed"}

\* a mapping that is not the online/detail-map shape and has no sequence
\* under any conventional key
IdMapShape(p) ==
    /\ IsDict(p)
    /\ ~(Has(p, "online") /\ IsList(Item(p, "online"))
         /\ Has(p, "data") /\ IsDict(Item(p, "data")))
    /\ \A k \in {"servers", "nodes", "clients", "list", "data"} :
          ~(Has(p, k) /\ IsList(Item(p, k)))

\* the values of a mapping that are mappings, in its iteration order
MappingValues(p) ==
    LET pos == SelectSeq([j \in 1..Len(p.kv) |-> j], LAMBDA j : IsDict(p.kv[j][2]))
    IN  [i \in 1..Len(pos) |-> p.kv[pos[i]][2]]

\* C11: for such a payload the raw records are the values of the mapping
\* that are mappings, in its iteration order; with no such value the
\* invocation ends with the format message listing the mapping's keys and
\* nothing else is output.
C11_MappingValuesOrFormatMessage ==
    (IdMapShape(raw_data) /\ pc = "done" /\ LoopOver) =>
        IF MappingValues(raw_data) # << >>
        THEN idx > 0 /\ realtime_data = List(MappingValues(raw_data))
        ELSE /\ out = <<Msg("format", [j \in 1..Len(raw_data.kv) |-> raw_data.kv[j][1]])>>
             /\ idx = 0 /\ processed_nodes = << >>

\* the identity keys of a valid element can be looked up in the inventory
KeysHashable(e) ==
    Hashable(Get(Validate(e).node, "uuid")) /\ Hashable(Get(Validate(e).node, "id"))

\* the group g of the record raw is a mapping whose total is a positive
\* number and whose used is a number
SizeGroupOk(raw, g) ==
    /\ Has(raw, g) /\ IsDict(Item(raw, g))
    /\ IsNum(Get(Item(raw, g), "total")) /\ IsNum(Get(Item(raw, g), "used"))
    /\ Item(Item(raw, g), "total").n > 0

\* the processed record rec holds the derived fields of every well-formed
\* metric group of the raw record
DerivedFields(raw, rec) ==
    /\ (Has(raw, "cpu") /\ IsDict(Item(raw, "cpu")) /\ IsNum(Get(Item(raw, "cpu"), "usage")))
          => Has(rec, "cpu_usage_percent")
    /\ SizeGroupOk(raw, "ram")
          => Has(rec, "ram_total_gb") /\ Has(rec, "ram_used_gb") /\ Has(rec, "ram_usage_percent")
    /\ SizeGroupOk(raw, "disk")
          => Has(rec, "disk_total_gb") /\ Has(rec, "disk_used_gb") /\ Has(rec, "disk_usage_percent")
    /\ (Has(raw, "uptime") /\ IsNum(Item(raw, "uptime"))) => Has(rec, "uptime_str")
    /\ (Has(raw, "load") /\ IsDict(Item(raw, "load")))
          => Has(rec, "load_1") /\ Has(rec, "load_5") /\ Has(rec, "load_15")

\* C12: the metric steps are independent and never raise: once the loop
\* over the raw sequence has started and every record can be reconciled,
\* the invocation ends with a message, every valid element has its
\* processed record, and that record holds the derived fields of every
\* well-formed group, whatever the other groups of the record look like.
C12_MetricStepsIndependent ==
    (idx > 0 /\ pc \in {"done", "raised"} /\ \A j \in 1..Len(ValidElems) : KeysHashable(ValidElems[j]))
        => /\ pc = "done" /\ Len(out) = 1
           /\ Len(processed_nodes) = Len(ValidElems)
           /\ \A j \in 1..Len(processed_nodes) :
                 DerivedFields(Validate(ValidElems[j]).node, processed_nodes[j])

=============================================================================
